---- MODULE Spec2Model ----
(***************************************************************************)
(* Model of gex (src/gex_khashl, keyb_man.c, gex_helper_funcs.c): the      *)
(* pending-edit overlay (app.edmap), the memory-mapped file (app.map,      *)
(* app.fsize), the viewport (hex.v_start, grid geometry) and the cursor.   *)
(* One action per key / menu entry dispatched by handle_global_keys and    *)
(* create_main_menu.                                                        *)
(***************************************************************************)
EXTENDS Integers, Sequences, FiniteSets, TLC

VARIABLES
    file,       \* bytes of the file on disk (what app.map shows while mapped)
    fsize,      \* app.fsize
    mapped,     \* app.map is a valid mapping
    tmpfile,    \* "<fname>.gextmp" exists on disk
    edmap,      \* app.edmap: offset -> pending byte
    rows,       \* app.rows
    cols,       \* app.cols
    v_start,    \* hex.v_start
    cur_row,    \* hex.cur_row
    cur_col,    \* hex.cur_col
    cur_digit,  \* hex.cur_digit
    is_hinib,   \* hex.is_hinib
    in_hex,     \* app.in_hex
    status,     \* "running", "exited" (final_close) or "crashed"
    pc          \* "main": waiting in getch; otherwise the entry of
                \* create_main_menu that has just returned

vars == <<file, fsize, mapped, tmpfile, edmap, rows, cols, v_start,
          cur_row, cur_col, cur_digit, is_hinib, in_hex, status, pc>>

(***************************************************************************)
(* Bounds of the model                                                     *)
(***************************************************************************)
MaxSize == 3        \* insert_bytes is not taken beyond this file size

(***************************************************************************)
(* Key codes and program constants                                         *)
(***************************************************************************)
KEY_ESCAPE == 27
KEY_REFRESH == 373
MAX_BYTES == 1024

\* files named at start: "4", and an empty file
InitFiles == {<<52>>, <<>>}
\* keys that reach handle_edit_keys: '0', ESC
EditKeys == {48, KEY_ESCAPE}
\* terminal sizes <<rows, cols>> delivered with KEY_RESIZE:
\* grids of 1x1 and 2x2 cells
TermSizes == {<<8, 8>>, <<9, 12>>}
\* answers of the numeric prompt; an invalid input answers 0
GotoAnswers == {0, 1, 2, 5}
CountAnswers == {0, 1, 2, MAX_BYTES + 1}

EmptyMap == [x \in {} |-> 0]

(***************************************************************************)
(* Helpers                                                                 *)
(***************************************************************************)
\* C integer division (truncation toward zero)
CDiv(a, b) == IF a >= 0 THEN a \div b ELSE -((-a) \div b)

Min(a, b) == IF a <= b THEN a ELSE b

\* comparison "x >= n" where x was computed in unsigned long: a negative
\* mathematical value wraps to a huge one
UGe(x, n) == x < 0 \/ x >= n

\* comparison "x > n" of the same kind
UGt(x, n) == x < 0 \/ x > n

isprint(k) == k >= 32 /\ k <= 126

\* variant: the range of the small letters ends one letter late
IsHexDigit_through_g(k) ==
    (k >= 48 /\ k <= 57) \/ (k >= 65 /\ k <= 70) \/ (k >= 97 /\ k <= 103)

IsHexDigit(k) == (k >= 48 /\ k <= 57) \/ (k >= 65 /\ k <= 70) \/ (k >= 97 /\ k <= 102)

HELPER_nib_to_hexval(c) ==
    IF c >= 48 /\ c <= 57 THEN c - 48
    ELSE IF c >= 65 /\ c <= 70 THEN c - 65 + 10
    ELSE IF c >= 97 /\ c <= 102 THEN c - 97 + 10
    ELSE -1

apply_hinib_to_byte(byte, hi) == ((byte % 16) + HELPER_nib_to_hexval(hi) * 16) % 256

\* variant: the old low nibble is not cleared before the new one is set
apply_lonib_to_byte_no_mask(byte, lo) == (byte + HELPER_nib_to_hexval(lo)) % 256

apply_lonib_to_byte(byte, lo) == ((byte \div 16) * 16 + HELPER_nib_to_hexval(lo)) % 256

(***************************************************************************)
(* popup_question, PTYPE_UNSIGNED_LONG: the text typed (at most 16          *)
(* characters) goes through strtoul(tmp, &endptr, 10).  An unsigned long    *)
(* 2^64 - n, which strtoul returns for "-n", is written -n.                 *)
(***************************************************************************)
isspace(c) == c = 32 \/ (c >= 9 /\ c <= 13)

isdigit(c) == c >= 48 /\ c <= 57

\* the first index from i on at which s has no character satisfying the
\* test, Len(s) + 1 if there is none
SkipWhile(s, i, Test(_)) ==
    CHOOSE j \in i..(Len(s) + 1) :
        /\ j = Len(s) + 1 \/ ~Test(s[j])
        /\ \A m \in i..(j - 1) : Test(s[m])

RECURSIVE DecimalValue(_, _, _)
\* the number written by the digits s[i..j-1]
DecimalValue(s, i, j) ==
    IF j <= i THEN 0
    ELSE DecimalValue(s, i, j - 1) * 10 + (s[j - 1] - 48)

strtoul(s) ==
    LET start == SkipWhile(s, 1, isspace)
        signed == start <= Len(s) /\ s[start] \in {43, 45}
        first == IF signed THEN start + 1 ELSE start
        last == SkipWhile(s, first, isdigit)
        mag == DecimalValue(s, first, last)
    IN  IF last = first
        THEN [value |-> 0, endptr |-> 1]
        ELSE [value |-> IF s[start] = 45 THEN -mag ELSE mag, endptr |-> last]

\* the answer: 0 if tmp[0] == '-', endptr == tmp or *endptr != '\0'
popup_question_number(s) ==
    LET r == strtoul(s)
    IN  IF (Len(s) > 0 /\ s[1] = 45) \/ r.endptr = 1 \/ r.endptr <= Len(s)
        THEN 0
        ELSE r.value

(***************************************************************************)
(* Geometry, size_windows                                                  *)
(***************************************************************************)
status_height == 3
hex_height_of(r) == r - status_height - 4
\* variant: the two border columns are not taken off
hex_width_of_with_border(c) == CDiv(c - 2, 4) * 3

hex_width_of(c) == CDiv(c - 4, 4) * 3
ascii_width_of(c) == CDiv(hex_width_of(c), 3)
grid_of(r, c) == ascii_width_of(c) * hex_height_of(r)
too_small_of(r, c) == r < status_height + 8 \/ c < 68

hex_height == hex_height_of(rows)
hex_width == hex_width_of(cols)
ascii_width == ascii_width_of(cols)
hex_grid == grid_of(rows, cols)
too_small == too_small_of(rows, cols)

(***************************************************************************)
(* Offsets                                                                 *)
(***************************************************************************)
row_digit_to_offset(row, digit) == (row * ascii_width) + digit

\* variant: the hex column counts two characters for a byte
file_offset_to_rc_two_columns(byte_offset) ==
    IF UGe(v_start + byte_offset, fsize)
    THEN [ok |-> FALSE]
    ELSE LET row == CDiv(byte_offset, ascii_width)
             a_col == byte_offset - (ascii_width * row)
         IN  [ok |-> TRUE, row |-> row, h_col |-> a_col * 2, a_col |-> a_col]

\* ok is the value returned; row, h_col and a_col are written only then
file_offset_to_rc(byte_offset) ==
    IF UGe(v_start + byte_offset, fsize)
    THEN [ok |-> FALSE]
    ELSE LET row == CDiv(byte_offset, ascii_width)
             a_col == byte_offset - (ascii_width * row)
         IN  [ok |-> TRUE, row |-> row, h_col |-> a_col * 3, a_col |-> a_col]

\* hex.v_start + idx of the cell under the cursor
CellOffset == v_start + row_digit_to_offset(cur_row, cur_digit)

\* variant: no clamp to the last byte
cursor_full_file_offset_no_clamp == CellOffset

cursor_full_file_offset ==
    IF UGe(CellOffset, fsize) THEN fsize - 1 ELSE CellOffset

\* app.map[x]
MapAt(x) == file[x + 1]

HasEdit(x) == x \in DOMAIN edmap

\* displayed value: overlay first, then the file
Effective(x) == IF HasEdit(x) THEN edmap[x] ELSE MapAt(x)

\* variant: the entry is stored under the following key
kh_put_next_key(m, k, v) ==
    [x \in (DOMAIN m) \cup {k + 1} |-> IF x = k + 1 THEN v ELSE m[x]]

kh_put(m, k, v) == [x \in (DOMAIN m) \cup {k} |-> IF x = k THEN v ELSE m[x]]

\* variant: the entry is never removed
kh_del_keeps(m, k) == m

kh_del(m, k) == [x \in (DOMAIN m) \ {k} |-> m[x]]

(***************************************************************************)
(* Cursor records and k_left / k_right                                     *)
(***************************************************************************)
Cur == [row |-> cur_row, col |-> cur_col, digit |-> cur_digit, hinib |-> is_hinib]

SetCur(c) ==
    /\ cur_row' = c.row
    /\ cur_col' = c.col
    /\ cur_digit' = c.digit
    /\ is_hinib' = c.hinib

\* variant: in the ascii pane the wrap goes to the first digit but one
k_left_ascii_short_wrap(c, inhex) ==
    IF inhex
    THEN IF ~c.hinib
         THEN [c EXCEPT !.col = c.col - 1, !.hinib = TRUE]
         ELSE IF c.digit > 0
              THEN [c EXCEPT !.col = c.col - 2, !.digit = c.digit - 1, !.hinib = FALSE]
              ELSE [c EXCEPT !.col = (ascii_width - 1) * 3, !.digit = ascii_width - 1,
                             !.hinib = TRUE]
    ELSE IF c.digit > 0
         THEN [c EXCEPT !.col = c.col - 3, !.digit = c.digit - 1, !.hinib = TRUE]
         ELSE [c EXCEPT !.col = (ascii_width - 2) * 3, !.digit = ascii_width - 2,
                        !.hinib = TRUE]

k_left(c, inhex) ==
    IF inhex
    THEN IF ~c.hinib
         THEN [c EXCEPT !.col = c.col - 1, !.hinib = TRUE]
         ELSE IF c.digit > 0
              THEN [c EXCEPT !.col = c.col - 2, !.digit = c.digit - 1, !.hinib = FALSE]
              ELSE [c EXCEPT !.col = (ascii_width - 1) * 3, !.digit = ascii_width - 1,
                             !.hinib = TRUE]
    ELSE IF c.digit > 0
         THEN [c EXCEPT !.col = c.col - 3, !.digit = c.digit - 1, !.hinib = TRUE]
         ELSE [c EXCEPT !.col = (ascii_width - 1) * 3, !.digit = ascii_width - 1,
                        !.hinib = TRUE]

\* variant: from the low nibble the cursor goes back to the high nibble of
\* the same digit
k_right_same_digit(c, inhex) ==
    IF inhex
    THEN IF c.hinib
         THEN [c EXCEPT !.col = c.col + 1, !.hinib = FALSE]
         ELSE [c EXCEPT !.col = c.col - 1, !.hinib = TRUE]
    ELSE IF c.digit < ascii_width - 1
         THEN [c EXCEPT !.col = c.col + 3, !.digit = c.digit + 1, !.hinib = TRUE]
         ELSE [c EXCEPT !.col = 0, !.digit = 0, !.hinib = TRUE]

k_right(c, inhex) ==
    IF inhex
    THEN IF c.hinib
         THEN [c EXCEPT !.col = c.col + 1, !.hinib = FALSE]
         ELSE IF c.digit < ascii_width - 1
              THEN [c EXCEPT !.col = c.col + 2, !.digit = c.digit + 1, !.hinib = TRUE]
              ELSE [c EXCEPT !.col = 0, !.digit = 0, !.hinib = TRUE]
    ELSE IF c.digit < ascii_width - 1
         THEN [c EXCEPT !.col = c.col + 3, !.digit = c.digit + 1, !.hinib = TRUE]
         ELSE [c EXCEPT !.col = 0, !.digit = 0, !.hinib = TRUE]

HomeCur == [row |-> 0, col |-> 0, digit |-> 0, hinib |-> TRUE]

\* variant: KEY_END goes to the low nibble of the last digit
EndCur_low_nibble == [row |-> hex_height - 1, col |-> hex_width - 2,
                      digit |-> ascii_width - 1, hinib |-> FALSE]

\* KEY_END of handle_in_screen_movement, for the geometry of r x c
EndCur == [row |-> hex_height - 1, col |-> hex_width - 3,
           digit |-> ascii_width - 1, hinib |-> TRUE]


(***************************************************************************)
(* Rendering: update_all_windows -> refresh_grids reads app.map for every  *)
(* visible offset unless the terminal is too small.  With the mapping gone *)
(* that read faults.                                                       *)
(***************************************************************************)
RenderFaults(r, c, m, vs, fs) == ~too_small_of(r, c) /\ ~m /\ vs < fs

Running == status = "running"

AtKeys == Running /\ pc = "main"

FileVars == <<file, fsize, mapped, tmpfile>>
TermVars == <<rows, cols>>
CurVars == <<cur_row, cur_col, cur_digit, is_hinib>>

\* the process is gone (final_close, or a fault): the file and the
\* terminal stay, the overlay is destroyed, the mapping released
Halt(st) ==
    /\ status' = st
    /\ edmap' = EmptyMap
    /\ mapped' = FALSE
    /\ v_start' = 0
    /\ SetCur(HomeCur)
    /\ in_hex' = TRUE
    /\ pc' = "main"
    /\ UNCHANGED <<fsize, TermVars>>

(***************************************************************************)
(* helperfunction_open_file                                                *)
(***************************************************************************)
\* how helperfunction_open_file can end
OpenOutcomes == {"ok", "open_fail", "mmap_fail"}

\* variant: an empty file is mapped like any other
helperfunction_open_file_empty_ok(f, fs, oo) ==
    IF oo = "open_fail"
    THEN [ok |-> FALSE, fsize |-> fs, mapped |-> FALSE]
    ELSE IF oo = "mmap_fail"
    THEN [ok |-> FALSE, fsize |-> Len(f), mapped |-> FALSE]
    ELSE [ok |-> TRUE, fsize |-> Len(f), mapped |-> TRUE]

\* f: the file now at app.fname, fs: app.fsize before the call
helperfunction_open_file(f, fs, oo) ==
    IF oo = "open_fail" \/ Len(f) < 1
    THEN [ok |-> FALSE, fsize |-> fs, mapped |-> FALSE]
    ELSE IF oo = "mmap_fail"
    THEN [ok |-> FALSE, fsize |-> Len(f), mapped |-> FALSE]
    ELSE [ok |-> TRUE, fsize |-> Len(f), mapped |-> TRUE]

(***************************************************************************)
(* Init: initial_setup, open_file, create_windows, first KEY_REFRESH.      *)
(* When the file cannot be opened main goes straight to final_close.       *)
(***************************************************************************)
InitWith(files, terms) ==
    /\ file \in files
    /\ LET h == helperfunction_open_file(file, 0, "ok")
       IN  /\ fsize = h.fsize
           /\ mapped = h.mapped
           /\ status = IF h.ok THEN "running" ELSE "exited"
    /\ tmpfile = FALSE
    /\ edmap = EmptyMap
    /\ \E t \in terms : rows = t[1] /\ cols = t[2]
    /\ v_start = 0
    /\ cur_row = 0
    /\ cur_col = 0
    /\ cur_digit = 0
    /\ is_hinib = TRUE
    /\ in_hex = TRUE
    /\ pc = "main"

Init == InitWith(InitFiles, TermSizes)

\* assert(0) in HELPER_nib_to_hexval: the process aborts
AssertFails ==
    /\ Halt("aborted")
    /\ UNCHANGED <<file, tmpfile>>

\* a handler that ends in update_all_windows while the mapping is gone
Fault ==
    /\ Halt("crashed")
    /\ UNCHANGED <<file, tmpfile>>

(***************************************************************************)
(* handle_in_screen_movement                                               *)
(***************************************************************************)
\* variant: the pane is flipped with the cursor left on its nibble
KeyTab_keeps_nibble ==
    /\ AtKeys
    /\ in_hex' = ~in_hex
    /\ UNCHANGED <<FileVars, TermVars, edmap, v_start, CurVars, status, pc>>

KeyTab ==
    /\ AtKeys
    /\ SetCur(IF ~is_hinib THEN [Cur EXCEPT !.col = cur_col - 1, !.hinib = TRUE] ELSE Cur)
    /\ in_hex' = ~in_hex
    /\ UNCHANGED <<FileVars, TermVars, edmap, v_start, status, pc>>

KeyLeft ==
    /\ AtKeys
    /\ SetCur(k_left(Cur, in_hex))
    /\ UNCHANGED <<FileVars, TermVars, edmap, v_start, in_hex, status, pc>>

\* the cursor after the one or two k_left calls of the delete keys
BackspaceCur ==
    LET c1 == k_left(Cur, in_hex)
    IN  IF ~c1.hinib THEN k_left(c1, in_hex) ELSE c1

\* KEY_NCURSES_BACKSPACE, KEY_MAC_DELETE, KEY_OTHER_DELETE
KeyBackspace ==
    /\ AtKeys
    /\ IF RenderFaults(rows, cols, mapped, v_start, fsize)
       THEN Fault
       ELSE /\ LET c2 == BackspaceCur
                   key == v_start + row_digit_to_offset(c2.row, c2.digit)
               IN  /\ SetCur(c2)
                   /\ edmap' = IF key \in DOMAIN edmap THEN kh_del(edmap, key) ELSE edmap
            /\ UNCHANGED <<FileVars, TermVars, v_start, in_hex, status, pc>>

\* variant: the wrap at the end of a row goes on to the next row
KeyRight_next_row ==
    /\ AtKeys
    /\ LET c == k_right(Cur, in_hex)
       IN  SetCur(IF c.digit < cur_digit THEN [c EXCEPT !.row = c.row + 1] ELSE c)
    /\ UNCHANGED <<FileVars, TermVars, edmap, v_start, in_hex, status, pc>>

KeyRight ==
    /\ AtKeys
    /\ SetCur(k_right(Cur, in_hex))
    /\ UNCHANGED <<FileVars, TermVars, edmap, v_start, in_hex, status, pc>>

KeyHome ==
    /\ AtKeys
    /\ SetCur(HomeCur)
    /\ UNCHANGED <<FileVars, TermVars, edmap, v_start, in_hex, status, pc>>

KeyEnd ==
    /\ AtKeys
    /\ SetCur(EndCur)
    /\ UNCHANGED <<FileVars, TermVars, edmap, v_start, in_hex, status, pc>>

(***************************************************************************)
(* handle_scrolling_movement                                               *)
(***************************************************************************)
\* (size_t)hex.grid > app.fsize ; a negative grid converts to a huge value
GridAbove(fs) == hex_grid < 0 \/ hex_grid > fs
GridAtLeast(fs) == hex_grid < 0 \/ hex_grid >= fs

UpStart == IF v_start > ascii_width THEN v_start - ascii_width ELSE 0

\* variant: the viewport always moves one row on
DownStart_no_clamp ==
    IF GridAbove(fsize) THEN 0 ELSE v_start + ascii_width

DownStart ==
    IF GridAbove(fsize) THEN 0
    ELSE IF v_start + hex_grid + ascii_width < fsize THEN v_start + ascii_width
    ELSE fsize - hex_grid

NPageStart ==
    IF GridAbove(fsize) THEN 0
    ELSE IF v_start + (2 * hex_grid) < fsize THEN v_start + hex_grid
    ELSE fsize - hex_grid

PPageStart ==
    IF GridAbove(fsize) THEN 0
    ELSE IF v_start > hex_grid THEN v_start - hex_grid
    ELSE 0

\* hex.v_start + hex.grid is computed and compared in unsigned long
GotoStart(t) ==
    IF GridAtLeast(fsize) THEN 0
    ELSE IF UGt(t + hex_grid, fsize) THEN fsize - hex_grid
    ELSE t

\* v_start := vs followed by update_all_windows
ScrollTo(vs) ==
    IF RenderFaults(rows, cols, mapped, vs, fsize)
    THEN Fault
    ELSE /\ v_start' = vs
         /\ UNCHANGED <<FileVars, TermVars, edmap, CurVars, in_hex, status, pc>>

KeyUp ==
    /\ AtKeys
    /\ IF cur_row > 0
       THEN /\ cur_row' = cur_row - 1
            /\ UNCHANGED <<FileVars, TermVars, edmap, v_start, cur_col, cur_digit,
                           is_hinib, in_hex, status, pc>>
       ELSE ScrollTo(UpStart)

KeyDown ==
    /\ AtKeys
    /\ IF cur_row < hex_height - 1
       THEN /\ cur_row' = cur_row + 1
            /\ UNCHANGED <<FileVars, TermVars, edmap, v_start, cur_col, cur_digit,
                           is_hinib, in_hex, status, pc>>
       ELSE ScrollTo(DownStart)

KeyNPage == AtKeys /\ ScrollTo(NPageStart)

KeyPPage == AtKeys /\ ScrollTo(PPageStart)

(***************************************************************************)
(* handle_edit_keys                                                        *)
(***************************************************************************)
\* variant: the hex pane takes every printable key
EditAccepted_any_printable(k) == isprint(k)

\* the key is taken as an edit in the pane the cursor is in
EditAccepted(k) == IF in_hex THEN IsHexDigit(k) ELSE isprint(k)

\* variant: the ascii pane stores a letter in upper case
PendingByte_upper_case(k) ==
    IF ~in_hex THEN (IF k >= 97 /\ k <= 122 THEN k - 32 ELSE k)
    ELSE IF is_hinib THEN apply_hinib_to_byte(Effective(CellOffset), k)
    ELSE apply_lonib_to_byte(Effective(CellOffset), k)

\* the byte an accepted key k leaves pending at the cursor cell
PendingByte(k) ==
    IF ~in_hex THEN k % 256
    ELSE IF is_hinib THEN apply_hinib_to_byte(Effective(CellOffset), k)
    ELSE apply_lonib_to_byte(Effective(CellOffset), k)

\* variant: the edit is stored whatever the file byte is
RecordEdit_always_put(m, off, pending, filebyte) == kh_put(m, off, pending)

\* an edit equal to the file byte removes the entry, any other is stored
RecordEdit(m, off, pending, filebyte) ==
    IF pending = filebyte
    THEN (IF off \in DOMAIN m THEN kh_del(m, off) ELSE m)
    ELSE kh_put(m, off, pending)

\* the cell under the cursor lies in the file and k is a key of the pane
EditTaken(k) == ~UGe(CellOffset, fsize) /\ EditAccepted(k)

\* variant: the pending byte is written to the mapping, not to the overlay
handle_edit_keys_write_through(k) ==
    /\ AtKeys
    /\ IF ~EditTaken(k)
       THEN UNCHANGED vars
       ELSE IF ~mapped
       THEN Fault
       ELSE /\ file' = [file EXCEPT ![CellOffset + 1] = PendingByte(k)]
            /\ SetCur(k_right(Cur, in_hex))
            /\ UNCHANGED <<fsize, mapped, tmpfile, TermVars, edmap, v_start, in_hex,
                           status, pc>>

handle_edit_keys(k) ==
    /\ AtKeys
    /\ IF ~EditTaken(k)
       THEN UNCHANGED vars
       ELSE IF ~mapped
       THEN Fault      \* app.map[...] is read through a dead mapping
       ELSE IF in_hex /\ HELPER_nib_to_hexval(k) = -1
       THEN AssertFails    \* assert(0 && "invalid digit in hex")
       ELSE /\ edmap' = RecordEdit(edmap, CellOffset, PendingByte(k), MapAt(CellOffset))
            /\ SetCur(k_right(Cur, in_hex))
            /\ UNCHANGED <<FileVars, TermVars, v_start, in_hex, status, pc>>

EditKeyIn(K) == \E k \in K : handle_edit_keys(k)

EditKey == EditKeyIn(EditKeys)

(***************************************************************************)
(* handle_click, with get_window_click                                     *)
(***************************************************************************)
\* variant: a click on the separator goes to the digit that follows it
handle_click_separator_forward(win, row, col) ==
    /\ AtKeys
    /\ UNCHANGED <<FileVars, TermVars, edmap, v_start, status, pc>>
    /\ CASE win = "WIN_OTHER" -> UNCHANGED <<CurVars, in_hex>>
         [] win = "WIN_HEX" ->
              /\ in_hex' = TRUE
              /\ cur_row' = row
              /\ LET c1 == IF col % 3 = 2 THEN col + 1 ELSE col
                 IN  /\ cur_digit' = c1 \div 3
                     /\ cur_col' = c1
                     /\ is_hinib' = (c1 % 3 = 0)
         [] win = "WIN_ASCII" ->
              /\ in_hex' = FALSE
              /\ cur_row' = row
              /\ cur_digit' = col
              /\ cur_col' = col * 3
              /\ is_hinib' = TRUE

handle_click(win, row, col) ==
    /\ AtKeys
    /\ UNCHANGED <<FileVars, TermVars, edmap, v_start, status, pc>>
    /\ CASE win = "WIN_OTHER" -> UNCHANGED <<CurVars, in_hex>>
         [] win = "WIN_HEX" ->
              /\ in_hex' = TRUE
              /\ cur_row' = row
              /\ IF col = 0
                 THEN /\ cur_digit' = 0
                      /\ cur_col' = 0
                      /\ is_hinib' = TRUE
                 ELSE LET c1 == IF col % 3 = 2 THEN col - 1 ELSE col
                      IN  /\ cur_digit' = col \div 3
                          /\ cur_col' = c1
                          /\ is_hinib' = (c1 % 3 = 0)
         [] win = "WIN_ASCII" ->
              /\ in_hex' = FALSE
              /\ cur_row' = row
              /\ cur_digit' = col
              /\ cur_col' = col * 3
              /\ is_hinib' = TRUE

\* the cells clicked: first and last row, the first three and the last
\* two columns of a window w columns wide
ClickRows == {0, hex_height - 1}
ClickCols(w) == {0, 1, 2, w - 2, w - 1}

\* a click that get_window_click finds outside both windows
KeyMouseOutside == handle_click("WIN_OTHER", -1, -1)

\* the windows exist only when the terminal is not too small
KeyMouseWindow ==
    /\ ~too_small
    /\ \E row \in ClickRows :
         \/ \E col \in ClickCols(hex_width) : handle_click("WIN_HEX", row, col)
         \/ \E col \in ClickCols(ascii_width) : handle_click("WIN_ASCII", row, col)

KeyMouse == KeyMouseOutside \/ KeyMouseWindow

(***************************************************************************)
(* KEY_RESIZE: create_windows (size_windows) and KEY_HOME                  *)
(***************************************************************************)
KeyResize(r, c) ==
    /\ AtKeys
    /\ IF RenderFaults(r, c, mapped, v_start, fsize)
       THEN /\ Halt("crashed")
            /\ UNCHANGED <<file, tmpfile>>
       ELSE /\ rows' = r
            /\ cols' = c
            /\ SetCur(HomeCur)
            /\ UNCHANGED <<FileVars, edmap, v_start, in_hex, status, pc>>

ResizeIn(T) == \E t \in T : KeyResize(t[1], t[2])

Resize == ResizeIn(TermSizes)

\* end of create_main_menu: update_all_windows, handle_global_keys(KEY_RESIZE)
MenuTail ==
    /\ Running
    /\ pc # "main"
    /\ IF RenderFaults(rows, cols, mapped, v_start, fsize)
       THEN Fault
       ELSE /\ SetCur(HomeCur)
            /\ pc' = "main"
            /\ UNCHANGED <<FileVars, TermVars, edmap, v_start, in_hex, status>>


(***************************************************************************)
(* save_changes / abandon_changes                                          *)
(***************************************************************************)
RECURSIVE SortKeys(_)
\* variant: cmp_key with its two results exchanged, the keys in descending
\* order
SortKeys_descending(S) ==
    CHOOSE q \in [1..Cardinality(S) -> S] :
        \A i \in 1..Cardinality(S) : \A j \in 1..Cardinality(S) : i < j => q[i] > q[j]

\* qsort with cmp_key: the keys in ascending order
SortKeys(S) ==
    IF S = {} THEN <<>>
    ELSE LET m == CHOOSE x \in S : \A y \in S : x <= y
         IN  <<m>> \o SortKeys(S \ {m})

\* variant: every element of arr[] carries the value of the first key
CommitList_first_val(m) ==
    LET ks == SortKeys(DOMAIN m)
    IN  [i \in 1..Len(ks) |-> [key |-> ks[i], val |-> m[ks[1]]]]

\* arr[] of save_changes after qsort
CommitList(m) ==
    LET ks == SortKeys(DOMAIN m)
    IN  [i \in 1..Len(ks) |-> [key |-> ks[i], val |-> m[ks[i]]]]

RECURSIVE ApplyWrites(_, _, _)
\* for (i = 0; i < n; i++) app.map[arr[i].key] = arr[i].val;
ApplyWrites(f, arr, i) ==
    IF i > Len(arr) THEN f
    ELSE ApplyWrites([f EXCEPT ![arr[i].key + 1] = arr[i].val], arr, i + 1)

RECURSIVE WriteLog(_, _)
\* the offsets written by that loop, in the order of the writes
WriteLog(arr, i) ==
    IF i > Len(arr) THEN <<>>
    ELSE <<arr[i].key>> \o WriteLog(arr, i + 1)

\* a write outside the mapping
SaveFaults == ~mapped \/ \E k \in DOMAIN edmap : k >= fsize

\* variant: kh_clear is left out
save_changes_no_clear(yes, syncok) ==
    /\ AtKeys
    /\ IF edmap = EmptyMap \/ ~yes
       THEN /\ pc' = "save"
            /\ UNCHANGED <<FileVars, TermVars, edmap, v_start, CurVars, in_hex, status>>
       ELSE IF SaveFaults
       THEN Fault
       ELSE /\ file' = ApplyWrites(file, CommitList(edmap), 1)
            /\ pc' = "save"
            /\ UNCHANGED <<fsize, mapped, tmpfile, TermVars, edmap, v_start, CurVars,
                           in_hex, status>>

\* yes: the answer to "Are you sure"; syncok: msync succeeded.  The result
\* of msync is not looked at.  The closing handle_global_keys(KEY_REFRESH)
\* reaches handle_edit_keys with a key that is neither a hex digit nor
\* printable.
save_changes(yes, syncok) ==
    /\ AtKeys
    /\ IF edmap = EmptyMap \/ ~yes
       THEN /\ pc' = "save"
            /\ UNCHANGED <<FileVars, TermVars, edmap, v_start, CurVars, in_hex, status>>
       ELSE IF SaveFaults
       THEN Fault
       ELSE /\ file' = ApplyWrites(file, CommitList(edmap), 1)
            /\ edmap' = EmptyMap
            /\ pc' = "save"
            /\ UNCHANGED <<fsize, mapped, tmpfile, TermVars, v_start, CurVars,
                           in_hex, status>>

SaveChanges == \E yes \in BOOLEAN, syncok \in BOOLEAN : save_changes(yes, syncok)

\* variant: kh_clear is left out
abandon_changes_no_clear(yes) ==
    /\ AtKeys
    /\ pc' = "abandon"
    /\ UNCHANGED <<FileVars, TermVars, edmap, v_start, CurVars, in_hex, status>>

abandon_changes(yes) ==
    /\ AtKeys
    /\ pc' = "abandon"
    /\ IF edmap = EmptyMap \/ ~yes
       THEN UNCHANGED <<FileVars, TermVars, edmap, v_start, CurVars, in_hex, status>>
       ELSE /\ edmap' = EmptyMap
            /\ UNCHANGED <<FileVars, TermVars, v_start, CurVars, in_hex, status>>

AbandonChanges == \E yes \in BOOLEAN : abandon_changes(yes)

\* KEY_MOVE of handle_scrolling_movement, t the answer of the prompt
goto_byte(t) ==
    /\ AtKeys
    /\ IF RenderFaults(rows, cols, mapped, GotoStart(t), fsize)
       THEN Fault
       ELSE /\ v_start' = GotoStart(t)
            /\ pc' = "goto"
            /\ UNCHANGED <<FileVars, TermVars, edmap, CurVars, in_hex, status>>

GotoIn(G) == \E t \in G : goto_byte(t)

Goto == GotoIn(GotoAnswers)

\* the menu is left with ESC without a choice
MenuNone ==
    /\ AtKeys
    /\ pc' = "menu"
    /\ UNCHANGED <<FileVars, TermVars, edmap, v_start, CurVars, in_hex, status>>

\* QUIT, confirmed when edits are pending: final_close(0)
MenuQuit(yes) ==
    /\ AtKeys
    /\ IF edmap # EmptyMap /\ ~yes
       THEN UNCHANGED vars
       ELSE /\ Halt("exited")
            /\ UNCHANGED <<file, tmpfile>>

Quit == \E yes \in BOOLEAN : MenuQuit(yes)


(***************************************************************************)
(* file_insert / file_delete / helperfunction_open_file                    *)
(***************************************************************************)
Zeros(n) == [i \in 1..n |-> 0]

\* temp file of file_insert: head, nbytes zeros, tail
InsertedFile(f, p, n) == SubSeq(f, 1, p) \o Zeros(n) \o SubSeq(f, p + 1, Len(f))

\* variant: the tail is copied from one byte too early
DeletedFile_short_skip(f, p, n) == SubSeq(f, 1, p) \o SubSeq(f, p + n, Len(f))

\* temp file of file_delete: head, then the tail behind the skipped range
DeletedFile(f, p, n) == SubSeq(f, 1, p) \o SubSeq(f, p + n + 1, Len(f))

\* where file_insert / file_delete can stop
IoOutcomes == {"ok", "tmp_open_fail", "copy_fail", "rename_fail", "reopen_fail"}

\* the common skeleton of file_insert and file_delete, newf being the
\* content written to the temp file; the mapping is released first
file_replace(newf, out) ==
    CASE out = "tmp_open_fail" ->
           [file |-> file, fsize |-> fsize, tmpfile |-> tmpfile, ret |-> -1]
      [] out = "copy_fail" ->
           [file |-> file, fsize |-> fsize, tmpfile |-> FALSE, ret |-> -1]
      [] out = "rename_fail" ->
           [file |-> file, fsize |-> fsize, tmpfile |-> TRUE, ret |-> -1]
      [] out = "reopen_fail" ->
           [file |-> newf, fsize |-> fsize, tmpfile |-> FALSE, ret |-> -1]
      [] out = "ok" ->
           [file |-> newf, fsize |-> Len(newf), tmpfile |-> FALSE, ret |-> 0]

file_insert(p, n, out) == file_replace(InsertedFile(file, p, n), out)

file_delete(p, n, out) == file_replace(DeletedFile(file, p, n), out)

\* with app.fd dead (an earlier re-open failed) the copy cannot succeed
IoPossible(out) == mapped \/ out \in {"tmp_open_fail", "copy_fail"}

(***************************************************************************)
(* insert_bytes / delete_bytes                                             *)
(***************************************************************************)
InsertCount(c) == IF c > MAX_BYTES THEN MAX_BYTES ELSE c

\* variant: the cursor offset is not subtracted
DeleteMax_no_offset == Min(fsize, MAX_BYTES)

DeleteMax == Min(fsize - cursor_full_file_offset, MAX_BYTES)

DeleteCount(c) == IF c > DeleteMax THEN DeleteMax ELSE c

\* variant: pending edits do not stop the insert
InsertProceeds_any_overlay(c, yes) == InsertCount(c) > 0 /\ yes

\* the prompts are answered so that the file is replaced
InsertProceeds(c, yes) == edmap = EmptyMap /\ InsertCount(c) > 0 /\ yes
\* variant: the answer to the confirmation is not looked at
DeleteProceeds_unconfirmed(c, yes) == edmap = EmptyMap /\ DeleteCount(c) > 0

DeleteProceeds(c, yes) == edmap = EmptyMap /\ DeleteCount(c) > 0 /\ yes

\* c: the answer of the count prompt, yes: the confirmation, out / oo: how
\* file_insert and helperfunction_open_file end; create_windows follows
insert_bytes(c, yes, out, oo) ==
    /\ AtKeys
    /\ IF ~InsertProceeds(c, yes)
       THEN /\ pc' = "insert"
            /\ UNCHANGED <<FileVars, TermVars, edmap, v_start, CurVars, in_hex, status>>
       ELSE /\ IoPossible(out)
            /\ LET r == file_insert(cursor_full_file_offset, InsertCount(c), out)
                   h == helperfunction_open_file(r.file, r.fsize, oo)
               IN  /\ file' = r.file
                   /\ tmpfile' = r.tmpfile
                   /\ IF RenderFaults(rows, cols, h.mapped, v_start, h.fsize)
                      THEN Halt("crashed")
                      ELSE /\ fsize' = h.fsize
                           /\ mapped' = h.mapped
                           /\ pc' = "insert"
                           /\ UNCHANGED <<TermVars, edmap, v_start, CurVars, in_hex, status>>

InsertIn(C, max) ==
    \E c \in C, yes \in BOOLEAN :
        IF InsertProceeds(c, yes)
        THEN /\ Len(file) + InsertCount(c) <= max
             /\ \E out \in IoOutcomes, oo \in OpenOutcomes : insert_bytes(c, yes, out, oo)
        ELSE insert_bytes(c, yes, "ok", "ok")

InsertBytes == InsertIn(CountAnswers, MaxSize)

delete_bytes(c, yes, out, oo) ==
    /\ AtKeys
    /\ IF ~DeleteProceeds(c, yes)
       THEN /\ pc' = "delete"
            /\ UNCHANGED <<FileVars, TermVars, edmap, v_start, CurVars, in_hex, status>>
       ELSE /\ IoPossible(out)
            /\ LET r == file_delete(cursor_full_file_offset, DeleteCount(c), out)
                   h == helperfunction_open_file(r.file, r.fsize, oo)
               IN  /\ file' = r.file
                   /\ tmpfile' = r.tmpfile
                   /\ IF ~h.ok
                      THEN Halt("exited")         \* final_close(0)
                      ELSE /\ fsize' = h.fsize
                           /\ mapped' = h.mapped
                           /\ pc' = "delete"
                           /\ UNCHANGED <<TermVars, edmap, v_start, CurVars, in_hex, status>>

DeleteIn(C) ==
    \E c \in C, yes \in BOOLEAN :
        IF DeleteProceeds(c, yes)
        THEN \E out \in IoOutcomes, oo \in OpenOutcomes : delete_bytes(c, yes, out, oo)
        ELSE delete_bytes(c, yes, "ok", "ok")

DeleteBytes == DeleteIn(CountAnswers)

(***************************************************************************)
(* The editor: every key and every menu entry.  The terminals of this      *)
(* specification are too small for the windows to be drawn, so a click     *)
(* lands outside of them.                                                  *)
(***************************************************************************)
Next ==
    \/ KeyTab
    \/ KeyLeft
    \/ KeyBackspace
    \/ KeyRight
    \/ KeyHome
    \/ KeyEnd
    \/ KeyUp
    \/ KeyDown
    \/ KeyNPage
    \/ KeyPPage
    \/ EditKey
    \/ KeyMouseOutside
    \/ Resize
    \/ SaveChanges
    \/ AbandonChanges
    \/ Goto
    \/ MenuNone
    \/ MenuTail
    \/ Quit
    \/ InsertBytes
    \/ DeleteBytes

Spec == Init /\ [][Next]_vars

TypeOK ==
    /\ file \in Seq(0..255)
    /\ fsize \in Nat
    /\ mapped \in BOOLEAN
    /\ tmpfile \in BOOLEAN
    /\ \A k \in DOMAIN edmap : k \in Nat /\ edmap[k] \in 0..255
    /\ v_start \in Int
    /\ status \in {"running", "exited", "crashed", "aborted"}
    /\ (mapped => fsize = Len(file))


(***************************************************************************)
(* Editing without structural changes: larger overlays, both letter cases  *)
(***************************************************************************)
\* "3C"
EditFiles == {<<51, 67>>}
\* '3', 'C', 'c', ESC
EditSpecKeys == {51, 67, 99, KEY_ESCAPE}

InitEdit == InitWith(EditFiles, TermSizes)

EditSpecKey == EditKeyIn(EditSpecKeys)

NextEdit ==
    \/ KeyTab
    \/ KeyLeft
    \/ KeyBackspace
    \/ KeyRight
    \/ KeyHome
    \/ KeyEnd
    \/ KeyUp
    \/ KeyDown
    \/ KeyNPage
    \/ KeyPPage
    \/ EditSpecKey
    \/ Resize
    \/ SaveChanges
    \/ AbandonChanges
    \/ Goto
    \/ MenuTail

SpecEdit == InitEdit /\ [][NextEdit]_vars

(***************************************************************************)
(* Structural changes at the size where the 1024-byte cap matters          *)
(***************************************************************************)
BigMax == 1027          \* insert_bytes is not taken beyond this file size
BigFiles == {<<1, 2>>, <<1, 2, 3>>}
BigTerms == {<<9, 12>>}
BigInsertAnswers == {0, 1023, MAX_BYTES + 1}
BigDeleteAnswers == {0, 1023, MAX_BYTES + 1}
BigGotoAnswers == {0, 1}

InitBig == InitWith(BigFiles, BigTerms)

BigInsert == InsertIn(BigInsertAnswers, BigMax)
BigDelete == DeleteIn(BigDeleteAnswers)
BigGoto == GotoIn(BigGotoAnswers)

NextBig ==
    \/ KeyLeft
    \/ KeyRight
    \/ KeyHome
    \/ KeyEnd
    \/ BigGoto
    \/ MenuTail
    \/ BigInsert
    \/ BigDelete

SpecBig == InitBig /\ [][NextBig]_vars

(***************************************************************************)
(* The 10-byte file of the insert scenario                                 *)
(***************************************************************************)
ScenarioMax == 13       \* insert_bytes is not taken beyond this file size
ScenarioFiles == {<<11, 12, 13, 14, 15, 16, 17, 18, 19, 20>>}
\* a grid of 16 x 1 = 16 cells and one of 1 x 5 = 5 cells
ScenarioTerms == {<<8, 68>>, <<12, 8>>}
ScenarioGotoAnswers == {0, 5}

InitScenario == InitWith(ScenarioFiles, ScenarioTerms)

ScenarioInsert == InsertIn({3}, ScenarioMax)
ScenarioGoto == GotoIn(ScenarioGotoAnswers)
ScenarioResize == ResizeIn(ScenarioTerms)

NextScenario ==
    \/ KeyLeft
    \/ KeyRight
    \/ KeyHome
    \/ KeyEnd
    \/ KeyUp
    \/ KeyDown
    \/ ScenarioGoto
    \/ ScenarioResize
    \/ MenuTail
    \/ ScenarioInsert

SpecScenario == InitScenario /\ [][NextScenario]_vars


(***************************************************************************)
(* A file longer than the smallest grid that is drawn (4 rows of 16 bytes) *)
(***************************************************************************)
WideSize == 66          \* length of the file opened
WideCut == 3            \* delete_bytes is not taken below WideSize - WideCut
\* a file of 'A's
WideFiles == {[i \in 1..WideSize |-> 65]}
\* grids of 4 x 16 and 5 x 16 cells, both drawn
WideTerms == {<<11, 68>>, <<12, 68>>}
WideGotoAnswers == {0, WideSize - 1}
WideDeleteAnswers == {0, 1, 3}

InitWide == InitWith(WideFiles, WideTerms)

WideGoto == GotoIn(WideGotoAnswers)
WideResize == ResizeIn(WideTerms)
WideDelete == Len(file) > WideSize - WideCut /\ DeleteIn(WideDeleteAnswers)

NextWide ==
    \/ KeyTab
    \/ KeyLeft
    \/ KeyRight
    \/ KeyHome
    \/ KeyEnd
    \/ KeyUp
    \/ KeyDown
    \/ KeyNPage
    \/ KeyPPage
    \/ KeyMouse
    \/ WideGoto
    \/ WideResize
    \/ MenuTail
    \/ WideDelete

SpecWide == InitWide /\ [][NextWide]_vars


(***************************************************************************)
(* Terminals so small that the grid has no row or no column                *)
(***************************************************************************)
\* "444"
CrampedFiles == {<<52, 52, 52>>}
\* 7 rows: hex.height = 0; 7 columns: ascii.width = 0; and a grid of 2x2
CrampedTerms == {<<7, 12>>, <<8, 7>>, <<9, 12>>}

\* '0', 'g', ESC
CrampedKeys == {48, 103, KEY_ESCAPE}

InitCramped == InitWith(CrampedFiles, CrampedTerms)

CrampedResize == ResizeIn(CrampedTerms)
CrampedEditKey == EditKeyIn(CrampedKeys)

NextCramped ==
    \/ KeyTab
    \/ KeyLeft
    \/ KeyBackspace
    \/ KeyRight
    \/ KeyHome
    \/ KeyEnd
    \/ KeyUp
    \/ KeyDown
    \/ CrampedEditKey
    \/ KeyMouseOutside
    \/ CrampedResize

SpecCramped == InitCramped /\ [][NextCramped]_vars


(***************************************************************************)
(* Goto with the text typed at the prompt                                  *)
(***************************************************************************)
\* "abcdef"
TypedFiles == {<<97, 98, 99, 100, 101, 102>>}
\* grids of 1 and of 4 cells
TypedTerms == {<<8, 8>>, <<9, 12>>}
\* "", "0", "1", "4", "7", "-1", " -1", " -3", "1x", "x"
GotoTexts == {<<>>, <<48>>, <<49>>, <<52>>, <<55>>, <<45, 49>>, <<32, 45, 49>>,
              <<32, 45, 51>>, <<49, 120>>, <<120>>}

InitTyped == InitWith(TypedFiles, TypedTerms)

TypedGoto == \E txt \in GotoTexts : goto_byte(popup_question_number(txt))
TypedResize == ResizeIn(TypedTerms)

NextTyped ==
    \/ KeyTab
    \/ KeyLeft
    \/ KeyRight
    \/ KeyHome
    \/ KeyEnd
    \/ TypedGoto
    \/ TypedResize
    \/ MenuTail

SpecTyped == InitTyped /\ [][NextTyped]_vars


(***************************************************************************)
(* Terminals of many sizes, around the smallest one that is drawn          *)
(***************************************************************************)
MaxRows == 12           \* most rows of a terminal
MaxCols == 72           \* most columns of a terminal
\* "4"
GeomFiles == {<<52>>}
GeomTerms == {t \in (8..MaxRows) \X (8..MaxCols) : t[2] <= 12 \/ t[2] >= 64}

InitGeom == InitWith(GeomFiles, {<<8, 8>>})

GeomResize == ResizeIn(GeomTerms)

NextGeom ==
    \/ KeyEnd
    \/ KeyHome
    \/ GeomResize

SpecGeom == InitGeom /\ [][NextGeom]_vars


(***************************************************************************)
(* Properties                                                              *)
(***************************************************************************)

\* C1: in every reachable state an overlay entry lies inside the file and
\* its value differs from the byte the file holds at that offset.
OverlayDiffersFromFile ==
    \A X \in DOMAIN edmap : X + 1 \in DOMAIN file /\ edmap[X] # file[X + 1]

\* an edit is pending on a byte that insert_bytes put into the file
W_OverlayOnInsertedByte ==
    Running /\ \E X \in DOMAIN edmap : file[X + 1] = 0 /\ edmap[X] # 0

\* C2: an accepted edit at offset X with pending byte P leaves X without an
\* entry exactly when P equals the file byte at X, leaves the entry P
\* otherwise, and touches neither the entry of another offset nor the file;
\* so after edits only, the entry of X reflects the last edit at X.
EditLeavesLastPending ==
    [][\A k \in EditSpecKeys :
          (mapped /\ EditTaken(k) /\ handle_edit_keys(k)) =>
              LET X == CellOffset
                  P == PendingByte(k)
              IN  /\ (X \notin DOMAIN edmap') <=> (P = file[X + 1])
                  /\ X \in DOMAIN edmap' => edmap'[X] = P
                  /\ \A Y \in (DOMAIN edmap \cup DOMAIN edmap') \ {X} :
                        /\ Y \in DOMAIN edmap
                        /\ Y \in DOMAIN edmap'
                        /\ edmap'[Y] = edmap[Y]
                  /\ file' = file]_vars

\* both bytes of the file carry an edit, the first one typed in the ascii
\* pane ('c') and the second one after it
W_TwoEditsPending ==
    /\ Running
    /\ file \in EditFiles
    /\ DOMAIN edmap = {0, 1}
    /\ edmap[0] = 99
    /\ ~in_hex

\* C3: a hex-pane edit with a digit of value H on the high nibble leaves
\* (H * 16) + (E % 16), one with value L on the low nibble leaves
\* (E - E % 16) + L, E being the value displayed before; 'C' and 'c' both
\* count 12, '3' counts 3; no other offset changes.  A high-nibble edit
\* followed by a low-nibble edit therefore leaves H * 16 + L.
HexEditSetsNibble ==
    [][\A k \in {51, 67, 99} :
          (mapped /\ in_hex /\ EditTaken(k) /\ handle_edit_keys(k)) =>
              LET X == CellOffset
                  E == Effective(X)
                  V == IF k = 51 THEN 3 ELSE 12
                  P == IF is_hinib THEN (V * 16) + (E % 16) ELSE (E - (E % 16)) + V
                  After(Y) == IF Y \in DOMAIN edmap' THEN edmap'[Y] ELSE file'[Y + 1]
              IN  /\ After(X) = P
                  /\ \A Y \in (0..(Len(file) - 1)) \ {X} : After(Y) = Effective(Y)
                  /\ Len(file') = Len(file)]_vars

\* a byte of the unsaved file "3C" shows CC: both nibbles were typed
W_BothNibblesTyped ==
    /\ Running
    /\ file \in EditFiles
    /\ \E X \in DOMAIN edmap : edmap[X] = 204

\* C4: a confirmed save_changes with pending edits writes each overlay value
\* to its offset of the file, leaves every other byte and the size as they
\* were, empties the overlay, and leaves the displayed value of every
\* offset what it was before.
SaveCommitsOverlay ==
    [][\A syncok \in BOOLEAN :
          (edmap # EmptyMap /\ ~SaveFaults /\ save_changes(TRUE, syncok)) =>
              /\ Len(file') = Len(file)
              /\ fsize' = fsize
              /\ \A X \in 0..(Len(file) - 1) :
                    /\ X \in DOMAIN edmap => file'[X + 1] = edmap[X]
                    /\ X \notin DOMAIN edmap => file'[X + 1] = file[X + 1]
                    /\ file'[X + 1] = Effective(X)
              /\ edmap' = EmptyMap]_vars

\* save_changes has just returned and the file is no longer the one opened
W_SavedFile ==
    Running /\ pc = "save" /\ edmap = EmptyMap /\ file \notin EditFiles

\* C5: when msync fails, save_changes has written no pending edit to the
\* file and the overlay still holds every edit.
SaveAtomicOnSyncFailure ==
    [][\A yes \in BOOLEAN :
          save_changes(yes, FALSE) => (file' = file /\ edmap' = edmap)]_vars

ViewportInBounds ==
    Running => \/ v_start + hex_grid <= fsize
               \/ (hex_grid > fsize /\ v_start = 0)

\* C8: in every reachable state of a running session the offset under the
\* cursor, clamped to the last byte, is an offset of the file.
CursorOffsetInFile ==
    Running => /\ fsize >= 1
               /\ cursor_full_file_offset >= 0
               /\ cursor_full_file_offset < fsize
               /\ mapped => cursor_full_file_offset < Len(file)

\* after delete_bytes the cell under the cursor lies behind the end of the
\* file and the clamp takes the last byte
W_CursorClamped ==
    /\ Running
    /\ Len(file) < WideSize
    /\ ~too_small
    /\ CellOffset >= fsize
    /\ cursor_full_file_offset = fsize - 1

\* C9: a successful insert_bytes of 3 bytes at cursor offset p of a file of
\* size N leaves size N + 3 and the content old[0..p), three zero bytes,
\* old[p..N); for N = 10, p = 5 and a grid of 16 cells v_start is 0
\* afterwards.
InsertScenario ==
    [][(edmap = EmptyMap /\ insert_bytes(3, TRUE, "ok", "ok")) =>
          LET p == cursor_full_file_offset
              N == Len(file)
          IN  /\ Len(file') = N + 3
              /\ fsize' = N + 3
              /\ \A i \in 1..(N + 3) :
                    file'[i] = IF i <= p THEN file[i]
                               ELSE IF i <= p + 3 THEN 0
                               ELSE file[i - 3]
              /\ (N = 10 /\ p = 5 /\ hex_grid = 16) => v_start' = 0]_vars

\* C10: a successful delete_bytes at cursor offset p of a file of size N
\* with requested count c >= 1 hands file_delete the count
\* k = min(c, 1024, N - p), so that p + k <= N, and the file becomes
\* old[0..p) followed by old[p+k..N), of size N - k.
DeleteRemovesClampedCount ==
    [][\A c \in BigDeleteAnswers :
          (c >= 1 /\ edmap = EmptyMap /\ delete_bytes(c, TRUE, "ok", "ok")) =>
              LET p == cursor_full_file_offset
                  N == Len(file)
                  m == IF 1024 < N - p THEN 1024 ELSE N - p
                  k == IF c < m THEN c ELSE m
              IN  /\ k >= 1
                  /\ p + k <= N
                  /\ DeleteCount(c) = k
                  /\ Len(file') = N - k
                  /\ Running' => fsize' = N - k
                  /\ \A i \in 1..(N - k) :
                        file'[i] = IF i <= p THEN file[i] ELSE file[i + k]]_vars

\* delete_bytes has taken the zeros behind offset 2 out of a file of more
\* than 1024 bytes
W_DeletedFromLargeFile ==
    Running /\ pc = "delete" /\ file = <<1, 0, 2, 3>>


\* C11: after a successful insert_bytes of k bytes at offset p, delete_bytes
\* at p accepts the count k unclamped, and the file file_delete writes for
\* (p, k) is byte for byte the file before the insert, of the old size.
InsertThenDeleteRestores ==
    [][\A c \in BigInsertAnswers :
          (c >= 1 /\ edmap = EmptyMap /\ insert_bytes(c, TRUE, "ok", "ok")) =>
              LET p == cursor_full_file_offset
                  k == IF c < 1024 THEN c ELSE 1024
                  room == Len(file') - p
                  kdel == IF k <= room /\ k <= 1024 THEN k
                          ELSE IF room <= 1024 THEN room ELSE 1024
                  back == DeletedFile(file', p, kdel)
              IN  /\ p < Len(file)
                  /\ kdel = k
                  /\ Len(back) = Len(file)
                  /\ back = file]_vars

\* insert_bytes has put 1024 zeros in front of byte 1 of the file "\1\2\3"
W_InsertedIntoSmallFile ==
    /\ Running
    /\ pc = "insert"
    /\ Len(file) = 1027
    /\ file[1] = 1
    /\ file[2] = 0
    /\ file[1026] = 2


\* C12: when file_insert or file_delete fails before or in the rename
\* (temp file not created, copy or write failed, rename failed), the file
\* keeps its content and length and the temp file does not exist afterwards.
FailedRewriteLeavesNoTemp ==
    [][\A c \in CountAnswers, out \in {"tmp_open_fail", "copy_fail", "rename_fail"},
          oo \in OpenOutcomes :
          \/ InsertProceeds(c, TRUE) /\ insert_bytes(c, TRUE, out, oo)
          \/ DeleteProceeds(c, TRUE) /\ delete_bytes(c, TRUE, out, oo)
          => (file' = file /\ ~tmpfile')]_vars


\* C13: when insert_bytes or delete_bytes has renamed the temp file over the
\* original and the file then cannot be opened or mapped again, the session
\* is over when the operation returns.
RemapFailureEndsSession ==
    [][\A c \in CountAnswers, out \in {"ok", "reopen_fail"},
          oo \in {"open_fail", "mmap_fail"} :
          \/ InsertProceeds(c, TRUE) /\ insert_bytes(c, TRUE, out, oo)
          \/ DeleteProceeds(c, TRUE) /\ delete_bytes(c, TRUE, out, oo)
          => ~Running']_vars


\* C14: while the editor is running the file holds at least one byte and
\* app.fsize is at least 1: an empty file is not opened, and a delete_bytes
\* that empties the file ends the session.
RunningFileNotEmpty ==
    Running => (fsize >= 1 /\ Len(file) >= 1)

\* delete_bytes has emptied a file and the session is over; fsize is the
\* size the session had last
W_EmptiedFileEndsSession ==
    status = "exited" /\ file = <<>> /\ fsize >= 1


\* C15: insert_bytes and delete_bytes called with pending edits change
\* neither the file nor its size nor the overlay, and after an insert_bytes
\* or delete_bytes that replaced the file the overlay is empty, as it was
\* before.  (pc' is "insert" or "delete" exactly when one of them returns.)
StructuralNeedsEmptyOverlay ==
    [][pc' \in {"insert", "delete"} =>
          /\ edmap # EmptyMap => (/\ file' = file
                                  /\ fsize' = fsize
                                  /\ mapped' = mapped
                                  /\ tmpfile' = tmpfile
                                  /\ edmap' = edmap)
          /\ file' # file => (edmap = EmptyMap /\ edmap' = EmptyMap)]_vars

\* insert_bytes or delete_bytes has returned while an edit is pending
W_StructuralRejected ==
    Running /\ pc \in {"insert", "delete"} /\ edmap # EmptyMap


FileChangesOnlyBySaveOrRewrite ==
    [][(file' # file \/ fsize' # fsize) =>
          \/ /\ pc' = "save"
             /\ edmap # EmptyMap
             /\ fsize' = fsize
             /\ Len(file') = Len(file)
             /\ \A X \in 0..(Len(file) - 1) :
                   X \notin DOMAIN edmap => file'[X + 1] = file[X + 1]
          \/ /\ pc = "main"
             /\ pc' \in {"insert", "delete"}
             /\ edmap = EmptyMap
          \* delete_bytes that ends in final_close
          \/ /\ pc = "main"
             /\ ~Running'
             /\ edmap = EmptyMap
             /\ Len(file') < Len(file)]_vars

\* the file is one byte longer than the one opened and starts with '0':
\* an insert_bytes and a save_changes have changed it
W_InsertedAndSaved ==
    Running /\ file = <<48, 52>>


LeftWrapsToLowNibble ==
    [][(/\ AtKeys
        /\ in_hex
        /\ is_hinib
        /\ cur_digit = 0
        /\ KeyLeft)
       => (/\ cur_digit' = ascii_width - 1
           /\ ~is_hinib'
           /\ cur_row' = cur_row
           /\ v_start' = v_start)]_vars

\* C20: an accepted edit in the ascii pane with printable character k at
\* offset X makes k the pending byte: when k equals the file byte at X the
\* overlay has no entry at X afterwards, otherwise the overlay maps X to k;
\* the entries at the other offsets stay as they were.
AsciiEditSetsByte ==
    [][\A k \in EditSpecKeys :
          (/\ ~in_hex
           /\ EditTaken(k)
           /\ handle_edit_keys(k))
          => LET X == CellOffset
             IN  /\ isprint(k)
                 /\ IF k = file[X + 1]
                    THEN X \notin DOMAIN edmap'
                    ELSE X \in DOMAIN edmap' /\ edmap'[X] = k
                 /\ DOMAIN edmap' \ {X} = DOMAIN edmap \ {X}
                 /\ \A Y \in DOMAIN edmap \ {X} : edmap'[Y] = edmap[Y]
                 /\ file' = file]_vars

\* 'c' is pending at offset 1, which only typing it in the ascii pane gives,
\* and the cursor stands in the ascii pane
W_AsciiTypedPending ==
    Running /\ ~in_hex /\ 1 \in DOMAIN edmap /\ edmap[1] = 99

\* C21: in every reachable state of a running session the cursor row lies
\* in [0, height) and the cursor digit in [0, width) of the current
\* geometry, whatever the terminal size.
CursorInGrid ==
    Running => /\ 0 <= cur_row
               /\ cur_row < hex_height
               /\ 0 <= cur_digit
               /\ cur_digit < ascii_width

\* C22: in every reachable state of a running session the cell under the
\* cursor lies inside the file: v_start + row * width + digit < size (so no
\* edit is rejected for being out of bounds).
CursorCellInFile ==
    Running => ~UGe(CellOffset, fsize)

\* C23: an accepted edit moves the cursor by one Right step and nothing
\* else: in the hex pane from the high nibble to the low nibble of the same
\* digit, from the low nibble to the high nibble of the next digit (digit 0
\* after the last digit); in the ascii pane to the next digit with the same
\* wrap.  Row, pane and v_start stay.
EditAdvancesCursor ==
    [][\A k \in EditSpecKeys :
          (mapped /\ EditTaken(k) /\ handle_edit_keys(k)) =>
              /\ cur_row' = cur_row
              /\ in_hex' = in_hex
              /\ v_start' = v_start
              /\ IF in_hex /\ is_hinib
                 THEN cur_digit' = cur_digit /\ ~is_hinib'
                 ELSE /\ cur_digit' = IF cur_digit = ascii_width - 1 THEN 0
                                      ELSE cur_digit + 1
                      /\ is_hinib']_vars

\* the cursor stands on the low nibble of a digit whose high nibble has a
\* pending edit, in a row of two digits
W_EditedHighNibble ==
    /\ Running
    /\ in_hex
    /\ ~is_hinib
    /\ ascii_width = 2
    /\ CellOffset \in DOMAIN edmap
    /\ edmap[CellOffset] \div 16 # file[CellOffset + 1] \div 16

\* C24: an edit key pressed while the cell under the cursor is at or beyond
\* the end of the file, or a key that is not a hex digit in the hex pane, or
\* not a printable character in the ascii pane, changes nothing: overlay,
\* file, cursor (row, digit, nibble, pane) and v_start stay as they were.
RejectedEditChangesNothing ==
    [][\A k \in CrampedKeys :
          (/\ AtKeys
           /\ \/ CellOffset >= fsize
              \/ in_hex /\ ~IsHexDigit(k)
              \/ ~in_hex /\ ~isprint(k)
           /\ handle_edit_keys(k))
          => UNCHANGED <<edmap, file, fsize, cur_row, cur_col, cur_digit, is_hinib,
                         in_hex, v_start>>]_vars

\* the cursor stands in the hex pane on a cell past the end of the file
\* while an edit is pending elsewhere
W_CursorPastEndWithEdits ==
    /\ AtKeys
    /\ in_hex
    /\ CellOffset >= fsize
    /\ edmap # EmptyMap

\* C25: Backspace moves the cursor one step Left, and one more when it is
\* not on a high nibble then, and removes the overlay entry at the absolute
\* offset of the cursor reached, v_start + row * width + digit clamped to
\* size - 1: afterwards the cursor is on a high nibble, the overlay has no
\* entry at that offset, every other entry is as before and the file is
\* unchanged.
BackspaceRemovesEntryAtCursor ==
    [][(AtKeys /\ KeyBackspace) =>
          LET X == cursor_full_file_offset'
          IN  /\ is_hinib'
              /\ X \notin DOMAIN edmap'
              /\ DOMAIN edmap' \ {X} = DOMAIN edmap \ {X}
              /\ \A Y \in DOMAIN edmap \ {X} : edmap'[Y] = edmap[Y]
              /\ file' = file]_vars

\* C26: Tab puts the cursor on the high nibble of the digit it is on and
\* flips the active pane; row, digit, v_start, the overlay and the file stay.
\* A Tab pressed with the cursor already on a high nibble (as it is after a
\* Tab) moves nothing but the pane, so two Tabs in a row give the original
\* pane, row and digit with the high nibble.
TabFlipsPane ==
    [][(AtKeys /\ KeyTab) =>
          /\ in_hex' = ~in_hex
          /\ is_hinib'
          /\ cur_row' = cur_row
          /\ cur_digit' = cur_digit
          /\ cur_col' = 3 * cur_digit
          /\ v_start' = v_start
          /\ edmap' = edmap
          /\ file' = file
          /\ is_hinib => cur_col' = cur_col]_vars

\* the ascii pane is active, on the second digit of a row, with an edit
\* pending
W_TabbedToAscii ==
    /\ AtKeys
    /\ ~in_hex
    /\ is_hinib
    /\ cur_digit = 1
    /\ edmap # EmptyMap

\* C27: Left never changes row, pane, v_start or the overlay.  Except on the
\* high nibble of digit 0 in the hex pane, it steps one cell back within the
\* row: in the hex pane from the low to the high nibble of the same digit and
\* from the high nibble of digit d > 0 to the low nibble of digit d - 1; in
\* the ascii pane from digit d > 0 to d - 1 and from digit 0 to the last
\* digit of the row, always on the high nibble.
LeftStepsBack ==
    [][(AtKeys /\ KeyLeft) =>
          /\ cur_row' = cur_row
          /\ in_hex' = in_hex
          /\ v_start' = v_start
          /\ edmap' = edmap
          /\ (in_hex /\ ~is_hinib) => (cur_digit' = cur_digit /\ is_hinib')
          /\ (in_hex /\ is_hinib /\ cur_digit > 0)
                => (cur_digit' = cur_digit - 1 /\ ~is_hinib')
          /\ (~in_hex /\ cur_digit > 0) => (cur_digit' = cur_digit - 1 /\ is_hinib')
          /\ (~in_hex /\ cur_digit = 0)
                => (cur_digit' = ascii_width - 1 /\ is_hinib')]_vars

\* in the ascii pane the cursor stands on the last digit of a row of two,
\* where Left from digit 0 takes it, with an edit pending
W_AsciiOnLastDigit ==
    /\ AtKeys
    /\ ~in_hex
    /\ ascii_width = 2
    /\ cur_digit = 1
    /\ cur_row = 1
    /\ edmap # EmptyMap

\* C28: Right never changes row, pane, v_start or the overlay.  In the hex
\* pane it goes from the high to the low nibble of the same digit, from the
\* low nibble of digit d < width - 1 to the high nibble of digit d + 1, and
\* from the low nibble of the last digit to the high nibble of digit 0 of
\* the same row; in the ascii pane from digit d to d + 1, and from the last
\* digit to digit 0.
RightStepsForward ==
    [][(AtKeys /\ KeyRight) =>
          /\ cur_row' = cur_row
          /\ in_hex' = in_hex
          /\ v_start' = v_start
          /\ edmap' = edmap
          /\ (in_hex /\ is_hinib) => (cur_digit' = cur_digit /\ ~is_hinib')
          /\ (in_hex /\ ~is_hinib /\ cur_digit < ascii_width - 1)
                => (cur_digit' = cur_digit + 1 /\ is_hinib')
          /\ (in_hex /\ ~is_hinib /\ cur_digit = ascii_width - 1)
                => (cur_digit' = 0 /\ is_hinib')
          /\ (~in_hex /\ cur_digit < ascii_width - 1) => cur_digit' = cur_digit + 1
          /\ (~in_hex /\ cur_digit = ascii_width - 1) => cur_digit' = 0]_vars

\* in the hex pane the cursor stands on the high nibble of digit 0 in the
\* second row of a grid two digits wide, where Right from the low nibble of
\* the last digit takes it, with an edit pending
W_HexWrappedToFirstDigit ==
    /\ AtKeys
    /\ in_hex
    /\ is_hinib
    /\ ascii_width = 2
    /\ cur_digit = 0
    /\ cur_row = 1
    /\ edmap # EmptyMap

\* C29: Up with row > 0 decrements row and leaves v_start; Up at row 0
\* leaves row and sets v_start to max(v_start - width, 0).  Down with
\* row < height - 1 increments row and leaves v_start; Down at row
\* height - 1 leaves row and sets v_start to 0 if grid > size, otherwise to
\* min(v_start + width, size - grid).  Digit, nibble, pane and overlay are
\* unchanged by both.
UpDownMoveOrScroll ==
    [][/\ (AtKeys /\ KeyUp) =>
             /\ UNCHANGED <<cur_digit, is_hinib, in_hex, edmap>>
             /\ IF cur_row > 0
                THEN cur_row' = cur_row - 1 /\ v_start' = v_start
                ELSE /\ cur_row' = cur_row
                     /\ v_start' = IF v_start - ascii_width >= 0
                                   THEN v_start - ascii_width ELSE 0
       /\ (AtKeys /\ KeyDown) =>
             /\ UNCHANGED <<cur_digit, is_hinib, in_hex, edmap>>
             /\ cur_row < hex_height - 1 => (cur_row' = cur_row + 1 /\ v_start' = v_start)
             /\ cur_row = hex_height - 1 =>
                   /\ cur_row' = cur_row
                   /\ v_start' = IF hex_grid > fsize THEN 0
                                 ELSE Min(v_start + ascii_width, fsize - hex_grid)]_vars

\* the viewport has been scrolled to the last grid of a file longer than the
\* grid, with the cursor on the bottom row and an edit pending
W_ScrolledToLastGrid ==
    /\ AtKeys
    /\ cur_row = hex_height - 1
    /\ hex_grid < fsize
    /\ v_start > 0
    /\ v_start = fsize - hex_grid
    /\ edmap # EmptyMap

\* C30: PageDown sets v_start to min(v_start + grid, size - grid) and PageUp
\* sets it to max(v_start - grid, 0) whenever grid <= size; when grid >= size
\* both leave v_start at 0.  Neither moves the cursor or touches the overlay,
\* and from a state in which the grid ends inside the file (or the grid is
\* larger than the file and the view starts at 0) PageDown never decreases
\* and PageUp never increases v_start.
PageScrollsByGrid ==
    [][/\ (AtKeys /\ KeyNPage) =>
             /\ UNCHANGED <<cur_row, cur_col, cur_digit, is_hinib, in_hex, edmap>>
             /\ hex_grid <= fsize => v_start' = Min(v_start + hex_grid, fsize - hex_grid)
             /\ hex_grid >= fsize => v_start' = 0
             /\ (v_start + hex_grid <= fsize \/ (hex_grid > fsize /\ v_start = 0))
                   => v_start' >= v_start
       /\ (AtKeys /\ KeyPPage) =>
             /\ UNCHANGED <<cur_row, cur_col, cur_digit, is_hinib, in_hex, edmap>>
             /\ hex_grid <= fsize => v_start' = (IF v_start - hex_grid >= 0
                                                 THEN v_start - hex_grid ELSE 0)
             /\ hex_grid >= fsize => v_start' = 0
             /\ (v_start + hex_grid <= fsize \/ (hex_grid > fsize /\ v_start = 0))
                   => v_start' <= v_start]_vars

\* C31: Goto with target t sets v_start to 0 when grid >= size and otherwise
\* to min(t, size - grid); for every t < size the byte at offset t is inside
\* the window afterwards (v_start <= t < v_start + grid); for every t, also
\* those >= size, the grid ends inside the file afterwards (or the grid is
\* larger than the file and the view starts at 0).  The cursor and the
\* overlay are left as they were.  (A negative t stands for 2^64 + t.)
GotoShowsTarget ==
    [][\A txt \in GotoTexts :
          LET t == popup_question_number(txt)
          IN  (AtKeys /\ goto_byte(t)) =>
                 /\ v_start' = IF hex_grid >= fsize THEN 0
                               ELSE IF t < 0 THEN fsize - hex_grid
                               ELSE Min(t, fsize - hex_grid)
                 /\ (t >= 0 /\ t < fsize) => (v_start' <= t /\ t < v_start' + hex_grid)
                 /\ v_start' >= 0
                 /\ v_start' + hex_grid <= fsize \/ (hex_grid > fsize /\ v_start' = 0)
                 /\ UNCHANGED <<cur_row, cur_col, cur_digit, is_hinib, in_hex, edmap>>]_vars

\* C32: a click at (r, c) inside the hex pane makes the hex pane active and
\* puts the cursor on row r, digit c div 3, on the high nibble iff
\* c mod 3 = 0 (so a click on the separator column, c mod 3 = 2, lands on the
\* low nibble of the same digit); a click at (r, c) inside the ascii pane
\* makes the ascii pane active with row r, digit c, high nibble; a click
\* outside both panes changes nothing; no click changes v_start or the
\* overlay.
ClickSetsCursor ==
    [][AtKeys =>
          /\ \A row \in ClickRows :
                /\ \A col \in ClickCols(hex_width) :
                      (~too_small /\ handle_click("WIN_HEX", row, col)) =>
                          /\ in_hex'
                          /\ cur_row' = row
                          /\ cur_digit' = col \div 3
                          /\ is_hinib' <=> (col % 3 = 0)
                          /\ UNCHANGED <<v_start, edmap>>
                /\ \A col \in ClickCols(ascii_width) :
                      (~too_small /\ handle_click("WIN_ASCII", row, col)) =>
                          /\ ~in_hex'
                          /\ cur_row' = row
                          /\ cur_digit' = col
                          /\ is_hinib'
                          /\ UNCHANGED <<v_start, edmap>>
          /\ handle_click("WIN_OTHER", -1, -1) =>
                UNCHANGED <<cur_row, cur_col, cur_digit, is_hinib, in_hex, v_start, edmap>>]_vars

\* the cursor stands where a click on the last column of the hex pane, a
\* separator, puts it: bottom row, low nibble of the last digit
W_ClickedLastSeparator ==
    /\ AtKeys
    /\ ~too_small
    /\ in_hex
    /\ ~is_hinib
    /\ cur_row = hex_height - 1
    /\ cur_digit = ascii_width - 1
    /\ cur_col = hex_width - 2

CoordinatesRoundTrip ==
    Running =>
       /\ \A b \in 0..(hex_grid - 1) :
             LET rc == file_offset_to_rc(b)
             IN  /\ ~rc.ok <=> v_start + b >= fsize
                 /\ rc.ok => /\ rc.row = b \div ascii_width
                             /\ rc.a_col = b % ascii_width
                             /\ rc.a_col >= 0 /\ rc.a_col < ascii_width
                             /\ rc.h_col = 3 * rc.a_col
                             /\ row_digit_to_offset(rc.row, rc.a_col) = b
       /\ \A r \in 0..(hex_height - 1) : \A d \in 0..(ascii_width - 1) :
             LET rc == file_offset_to_rc(row_digit_to_offset(r, d))
             IN  rc.ok => (rc.row = r /\ rc.h_col = 3 * d /\ rc.a_col = d)

\* a drawn grid scrolled down, whose first row is in the file and whose
\* last cell is not
W_GridPartlyInFile ==
    /\ Running
    /\ ~too_small
    /\ v_start > 0
    /\ file_offset_to_rc(ascii_width - 1).ok
    /\ ~file_offset_to_rc(hex_grid - 1).ok

\* C35: the list save_changes builds holds exactly one (offset, value) pair
\* for each overlay entry, in strictly ascending order of offset (hence
\* without a duplicate offset), and the bytes are written to the file in
\* that order.
CommitListAscending ==
    [][(pc' = "save" /\ edmap # EmptyMap /\ ~SaveFaults
        /\ \E syncok \in BOOLEAN : save_changes(TRUE, syncok)) =>
          LET arr == CommitList(edmap)
              log == WriteLog(arr, 1)
          IN  /\ Len(arr) = Cardinality(DOMAIN edmap)
              /\ \A X \in DOMAIN edmap :
                    \E i \in 1..Len(arr) : arr[i] = [key |-> X, val |-> edmap[X]]
              /\ \A i \in 1..(Len(arr) - 1) : arr[i].key < arr[i + 1].key
              /\ Len(log) = Len(arr)
              /\ \A i \in 1..Len(arr) : log[i] = arr[i].key
              /\ \A i \in 1..(Len(log) - 1) : log[i] < log[i + 1]
              /\ \A i \in 1..Len(arr) : file'[arr[i].key + 1] = arr[i].val]_vars

\* save_changes has returned with an empty overlay and a file whose first
\* two bytes are both '0': two pending edits were written
W_SavedTwoEdits ==
    /\ Running
    /\ pc = "save"
    /\ edmap = EmptyMap
    /\ Len(file) >= 2
    /\ file[1] = 48
    /\ file[2] = 48

\* C36: in every reachable state of a running session in which the ascii
\* pane is active the cursor is on the high nibble.
AsciiPaneOnHighNibble ==
    (Running /\ ~in_hex) => is_hinib

\* the ascii pane is active in a drawn terminal with the cursor on the last
\* cell of the grid
W_AsciiPaneLastCell ==
    /\ AtKeys
    /\ ~too_small
    /\ ~in_hex
    /\ cur_row = hex_height - 1
    /\ cur_digit = ascii_width - 1

\* C37: the assertion of HELPER_nib_to_hexval is never reached: no key
\* pressed makes apply_hinib_to_byte or apply_lonib_to_byte run on a
\* character outside 0-9, A-F, a-f.
HexAssertNeverFails ==
    status # "aborted"

\* a byte of "444" has the pending value 04, which only '0' typed on its
\* high nibble in the hex pane leaves
W_HighNibbleApplied ==
    /\ Running
    /\ file \in CrampedFiles
    /\ \E X \in DOMAIN edmap : edmap[X] = 4

\* C38: every overlay key is an offset below the file size: an entry that
\* an edit adds lies inside the file, the size changes only while the
\* overlay is empty before and after, and every offset that a save writes
\* lies inside the mapped file.
OverlayKeysInFile ==
    /\ [](\A X \in DOMAIN edmap : X >= 0 /\ X < fsize)
    /\ [][/\ \A X \in DOMAIN edmap' \ DOMAIN edmap : X >= 0 /\ X < fsize
          /\ fsize' # fsize => edmap = EmptyMap /\ edmap' = EmptyMap
          /\ (pc' = "save" /\ edmap # EmptyMap /\ edmap' = EmptyMap) =>
                /\ status' = "running"
                /\ \A i \in 1..Len(WriteLog(CommitList(edmap), 1)) :
                      WriteLog(CommitList(edmap), 1)[i] < Len(file)]_vars

\* the last byte of a file that insert_bytes has lengthened carries an edit
W_EditOnLastByte ==
    /\ Running
    /\ fsize > 1
    /\ fsize - 1 \in DOMAIN edmap

\* C39: Left and Right undo each other: with a row of at least one byte,
\* after Left the key Right brings row, digit and nibble back to what they
\* were, and after Right the key Left does, in either pane.
LeftRightInverse ==
    [][/\ (AtKeys /\ ascii_width >= 1 /\ KeyLeft) =>
             LET back == k_right(Cur', in_hex')
             IN  /\ back.row = cur_row
                 /\ back.digit = cur_digit
                 /\ back.hinib = is_hinib
       /\ (AtKeys /\ ascii_width >= 1 /\ KeyRight) =>
             LET back == k_left(Cur', in_hex')
             IN  /\ back.row = cur_row
                 /\ back.digit = cur_digit
                 /\ back.hinib = is_hinib]_vars

====
